---------------------------- MODULE Spec2Model ----------------------------
(***************************************************************************)
(* A model of mercurio's "send" pipeline (src/mercurio/blocks.py and       *)
(* src/mercurio/cli.py): the FileFactory enumerator, the RsyncBlock        *)
(* workers and the send/main driver; of the keys and authorized_keys       *)
(* entries of src/mercurio/publickey.py; and of revoke (cli.py).           *)
(*                                                                         *)
(* Strings are sequences of tokens: a path separator is the token "/", a   *)
(* path component is one token, so that string concatenation is \o and     *)
(* str("/d/a") is <<"/", "d", "/", "a">>.  A pathlib.Path is a record      *)
(* [abs, parts].                                                           *)
(***************************************************************************)
EXTENDS Integers, Sequences, FiniteSets, TLC

(***************************************************************************)
(* Bounds of the model.                                                    *)
(***************************************************************************)
\* longest list of input paths given to FileFactory
MaxPaths == 2
\* get_obj calls made after the first None in the single-caller specification
MaxExtraCalls == 2
\* largest number of RsyncBlock workers (cpu_count()) of a run
MaxWorkers == 2
\* largest number of units a run of the pool enumerates
MaxUnits == 4
\* the iterations of a FileFactory (list(file_factory), for ... in file_factory)
MaxIterations == 1
\* the tokens of an arbitrary line given to from_line
MaxLineLen == 4
\* the options of an authorized_keys entry
MaxOptions == 2
\* the lines of ~/.ssh/authorized_keys
MaxFileLines == 3

(***************************************************************************)
(* Python values.                                                          *)
(***************************************************************************)
\* Python's None
None == [tag |-> "None"]

\* the exception a finished generator raises from next()
StopIteration == [tag |-> "StopIteration"]

\* RsyncUnit = namedtuple('RsyncUnit', ('source', 'destination'))
RsyncUnit(source, destination) == [source |-> source, destination |-> destination]

\* RsyncError(errno, strerror, filename): an OSError built from three arguments
RsyncError(errno, message, command) ==
    [tag |-> "RsyncError", errno |-> errno, strerror |-> message, filename |-> command]

\* os.strerror(code): the message of an OS error number, kept symbolic
strerror(code) == <<"strerror", code>>

(***************************************************************************)
(* The filesystem the program runs over.  Paths are sequences of           *)
(* components below the root <<>>.                                         *)
(*   /f            regular file                                            *)
(*   /d/a          regular file                                            *)
(*   /d/s/c        regular file                                            *)
(*   /d/s/p        a FIFO (a non-directory that is not a regular file)     *)
(*   /e            empty directory                                         *)
(*   /g/h          regular file, /g/i regular file (g has no subdirectory) *)
(***************************************************************************)
\* os.scandir(p): the entries of directory p, in listing order
scandir(p) ==
    CASE p = <<>>         -> << [name |-> "f", kind |-> "file"],
                                [name |-> "d", kind |-> "dir"],
                                [name |-> "e", kind |-> "dir"],
                                [name |-> "g", kind |-> "dir"] >>
      [] p = <<"d">>      -> << [name |-> "a", kind |-> "file"],
                                [name |-> "s", kind |-> "dir"] >>
      [] p = <<"d", "s">> -> << [name |-> "c", kind |-> "file"],
                                [name |-> "p", kind |-> "fifo"] >>
      [] p = <<"g">>      -> << [name |-> "h", kind |-> "file"],
                                [name |-> "i", kind |-> "file"] >>
      [] OTHER            -> << >>

\* the working directory relative paths are resolved against
cwd == <<"d">>

\* the kind of the node at absolute path p: "dir", "file", "fifo" or "missing"
RECURSIVE kind(_)
kind(p) ==
    IF p = <<>> THEN "dir"
    ELSE LET up   == SubSeq(p, 1, Len(p) - 1)
             hits == SelectSeq(scandir(up), LAMBDA e : e.name = p[Len(p)])
         IN  IF kind(up) = "dir" /\ hits # <<>> THEN hits[1].kind ELSE "missing"

(***************************************************************************)
(* pathlib                                                                 *)
(***************************************************************************)
\* Path(string): split on "/", drop "." components and empty components
Path(s) ==
    [abs   |-> s # <<>> /\ s[1] = "/",
     parts |-> SelectSeq(s, LAMBDA t : t # "/" /\ t # ".")]

\* str(path)
RECURSIVE join_parts(_)
join_parts(parts) ==
    IF Len(parts) = 0 THEN <<>>
    ELSE IF Len(parts) = 1 THEN parts
    ELSE <<parts[1], "/">> \o join_parts(Tail(parts))

str(path) ==
    IF path.abs THEN <<"/">> \o join_parts(path.parts)
    ELSE IF path.parts = <<>> THEN <<".">>
    ELSE join_parts(path.parts)

\* path.parent: the root and "." are their own parents
parent(path) ==
    IF path.parts = <<>> THEN path
    ELSE [path EXCEPT !.parts = SubSeq(@, 1, Len(@) - 1)]

\* path / name
child(path, name) == [path EXCEPT !.parts = Append(@, name)]

\* the path made absolute against the working directory
absolute(path) == IF path.abs THEN path ELSE [abs |-> TRUE, parts |-> cwd \o path.parts]

\* a resolve() that never raises (non-strict resolution)
resolve_never_raises(path) == FALSE

\* whether path.resolve() raises FileNotFoundError (strict resolution, the
\* behaviour of Python 3.4 and 3.5 that the except clause is written for)
resolve_raises(path) == kind(absolute(path).parts) = "missing"

\* path.resolve() when it does not raise: the canonical absolute path
resolve(path) == absolute(path)

\* path.is_file()
is_file(path) == kind(path.parts) = "file"

\* source.relative_to(base), for a base that is a prefix of source
relative_to(source, base) ==
    [abs |-> FALSE, parts |-> SubSeq(source.parts, Len(base.parts) + 1, Len(source.parts))]

(***************************************************************************)
(* os.walk(top): the (root, dirs, files) triples of a top-down walk.       *)
(* files holds every entry that is not a directory.                        *)
(***************************************************************************)
names_of(entries) == [i \in 1..Len(entries) |-> entries[i].name]

RECURSIVE walk(_)
RECURSIVE walk_each(_, _)
walk(top) ==
    IF kind(top.parts) # "dir" THEN <<>>
    ELSE LET entries == scandir(top.parts)
             dirs    == names_of(SelectSeq(entries, LAMBDA e : e.kind = "dir"))
             files   == names_of(SelectSeq(entries, LAMBDA e : e.kind # "dir"))
         IN  <<[root |-> top, dirs |-> dirs, files |-> files]>> \o walk_each(top, dirs)

walk_each(top, dirs) ==
    IF dirs = <<>> THEN <<>>
    ELSE walk(child(top, dirs[1])) \o walk_each(top, Tail(dirs))

(***************************************************************************)
(* FileFactory (src/mercurio/blocks.py)                                    *)
(***************************************************************************)
\* the units of one (root, dirs, files) triple of the walk of directory path:
\* RsyncUnit(str(source), str(source.relative_to(path.parent).parent))
triple_units(path, triple) ==
    [i \in 1..Len(triple.files) |->
        LET source == child(triple.root, triple.files[i])
        IN  RsyncUnit(str(source), str(parent(relative_to(source, parent(path)))))]

RECURSIVE walk_units(_, _)
walk_units(path, triples) ==
    IF triples = <<>> THEN <<>>
    ELSE triple_units(path, triples[1]) \o walk_units(path, Tail(triples))

\* the loop body yielding the path as given for a file, not the resolved one
iter_path_unresolved(path) ==
    IF resolve_raises(path)
    THEN [warned |-> <<str(path)>>, units |-> <<>>]
    ELSE LET resolved == resolve(path)
         IN  IF is_file(resolved)
             THEN [warned |-> <<>>, units |-> <<RsyncUnit(str(path), <<>>)>>]
             ELSE [warned |-> <<>>, units |-> walk_units(resolved, walk(resolved))]

\* one turn of the loop "for path in self.paths": the warning logged (if any)
\* and the units yielded for that input path, in order
iter_path(path) ==
    IF resolve_raises(path)
    THEN [warned |-> <<str(path)>>, units |-> <<>>]
    ELSE LET resolved == resolve(path)
         IN  IF is_file(resolved)
             THEN [warned |-> <<>>, units |-> <<RsyncUnit(str(resolved), <<>>)>>]
             ELSE [warned |-> <<>>, units |-> walk_units(resolved, walk(resolved))]

\* a fresh generator object, as iter(self) returns it: pi is the index of the
\* next input path, q the units of the current path not yet yielded, n the
\* number of units yielded so far
new_generator == [pi |-> 1, q |-> <<>>, n |-> 0]

\* next(gen) over self.paths = ps: the value yielded (or StopIteration), the
\* generator afterwards, and the warnings logged on the way
RECURSIVE generator_next(_, _)
generator_next(ps, g) ==
    IF g.q # <<>>
    THEN [val |-> Head(g.q), gen |-> [g EXCEPT !.q = Tail(@), !.n = @ + 1], warned |-> <<>>]
    ELSE IF g.pi > Len(ps)
    THEN [val |-> StopIteration, gen |-> g, warned |-> <<>>]
    ELSE LET it   == iter_path(ps[g.pi])
             rest == generator_next(ps, [g EXCEPT !.pi = @ + 1, !.q = it.units])
         IN  [rest EXCEPT !.warned = it.warned \o @]

\* FileFactory.__init__: self.paths = [Path(path) for path in paths]
FileFactory_paths(args) == [i \in 1..Len(args) |-> Path(args[i])]

\* get_obj with a generator that is not advanced by the call
get_obj_stale(ps, g) ==
    LET r == generator_next(ps, g)
    IN  [r EXCEPT !.val = IF r.val = StopIteration THEN None ELSE r.val, !.gen = g]

\* get_obj that calls next() twice and returns the second value
get_obj_skip(ps, g) ==
    LET r == generator_next(ps, generator_next(ps, g).gen)
    IN  [r EXCEPT !.val = IF r.val = StopIteration THEN None ELSE r.val]

\* get_obj that builds a new generator, self._gen = iter(self), on StopIteration
get_obj_restart(ps, g) ==
    LET r == generator_next(ps, g)
    IN  IF r.val = StopIteration
        THEN [r EXCEPT !.val = None, !.gen = new_generator]
        ELSE r

\* FileFactory.get_obj: next(self._gen), None on StopIteration
get_obj(ps, g) ==
    LET r == generator_next(ps, g)
    IN  [r EXCEPT !.val = IF r.val = StopIteration THEN None ELSE r.val]

\* FileFactory.process_obj
FileFactory_process_obj(obj) == obj

\* list(FileFactory(paths)): a fresh generator drained to StopIteration
RECURSIVE drain(_, _)
drain(ps, g) ==
    LET r == generator_next(ps, g)
    IN  IF r.val = StopIteration THEN <<>> ELSE <<r.val>> \o drain(ps, r.gen)

list_FileFactory(args) == drain(FileFactory_paths(args), new_generator)

(***************************************************************************)
(* Strings of publickey.py.  A string is the sequence of its tokens: the   *)
(* space, "@", ",", the header words and other words that hold none of     *)
(* these.  Where a value is a string or None, the string s is Str(s).      *)
(***************************************************************************)
Str(s) == [str |-> s]

ValueError == [tag |-> "ValueError"]

\* PublicKey.SUPPORTED_FORMAT, in its order
SUPPORTED_FORMAT ==
    << "ssh-rsa", "ssh-dss", "ssh-ed25519", "ecdsa-sha2-nistp256",
       "ecdsa-sha2-nistp384", "ecdsa-sha2-nistp521" >>

\* the whitespace of str.split(), str.strip()
whitespace == {" ", "\n"}

RECURSIVE lstrip(_)
lstrip(s) == IF s # <<>> /\ Head(s) \in whitespace THEN lstrip(Tail(s)) ELSE s

RECURSIVE rstrip(_)
rstrip(s) ==
    IF s # <<>> /\ s[Len(s)] \in whitespace THEN rstrip(SubSeq(s, 1, Len(s) - 1)) ELSE s

strip(s) == lstrip(rstrip(s))

\* the length of the longest prefix of s without whitespace
RECURSIVE word_len(_)
word_len(s) == IF s = <<>> \/ Head(s) \in whitespace THEN 0 ELSE 1 + word_len(Tail(s))

\* s.split(maxsplit=1): no field for a blank string; else the first field
\* and, if anything but whitespace follows it, the rest of the string from
\* its first non-blank on, trailing whitespace included
split_maxsplit_1(s) ==
    LET t    == lstrip(s)
        n    == word_len(t)
        rest == lstrip(SubSeq(t, n + 1, Len(t)))
    IN  IF t = <<>> THEN <<>>
        ELSE IF rest = <<>> THEN << SubSeq(t, 1, n) >>
        ELSE << SubSeq(t, 1, n), rest >>

\* s.split(sep) for a separator of one token: the fields between the
\* occurrences of sep, empty ones included
RECURSIVE split(_, _)
split(s, sep) ==
    LET hits == { i \in DOMAIN s : s[i] = sep }
    IN  IF hits = {} THEN << s >>
        ELSE LET i == CHOOSE h \in hits : \A k \in hits : h <= k
             IN  << SubSeq(s, 1, i - 1) >> \o split(SubSeq(s, i + 1, Len(s)), sep)

\* sep.join(strings)
RECURSIVE join(_, _)
join(sep, strings) ==
    IF strings = <<>> THEN <<>>
    ELSE IF Len(strings) = 1 THEN strings[1]
    ELSE strings[1] \o sep \o join(sep, Tail(strings))

\* s.rpartition(word) for a word of one token: what precedes its last
\* occurrence, the word, what follows; two empty strings and s without one
rpartition(s, word) ==
    LET hits == { i \in DOMAIN s : s[i] = word }
    IN  IF hits = {} THEN << <<>>, <<>>, s >>
        ELSE LET i == CHOOSE h \in hits : \A k \in hits : k <= h
             IN  << SubSeq(s, 1, i - 1), <<word>>, SubSeq(s, i + 1, Len(s)) >>

\* the value of "x or ''" for x a string or None
or_empty(x) == IF x = None THEN <<>> ELSE x.str

(***************************************************************************)
(* PublicKey and AuthorizedKeyEntry (src/mercurio/publickey.py)            *)
(***************************************************************************)
\* PublicKey.__init__: header and key are strings, owner and origin a
\* string or None
PublicKey(header, key, owner, origin) ==
    [tag |-> "PublicKey", header |-> header, key |-> key, owner |-> owner, origin |-> origin]

\* PublicKey.__str__
PublicKey_str(self) ==
    LET comment == IF or_empty(self.origin) # <<>>
                   THEN join(<<"@">>, << or_empty(self.owner), self.origin.str >>)
                   ELSE or_empty(self.owner)
    IN  IF comment # <<>>
        THEN join(<<" ">>, << self.header, self.key, comment >>)
        ELSE join(<<" ">>, << self.header, self.key >>)

\* PublicKey.from_line that takes the comment whole as the owner
PublicKey_from_line_no_origin(line) ==
    LET fields == split_maxsplit_1(line)
    IN  IF Len(fields) # 2 THEN ValueError
        ELSE IF \A i \in DOMAIN SUPPORTED_FORMAT : fields[1] # << SUPPORTED_FORMAT[i] >>
        THEN ValueError
        ELSE LET rest == split_maxsplit_1(fields[2])
             IN  IF Len(rest) # 2
                 THEN PublicKey(fields[1], fields[2], None, None)
                 ELSE PublicKey(fields[1], rest[1], Str(rest[2]), None)

\* PublicKey.from_line that accepts any header
PublicKey_from_line_any_header(line) ==
    LET fields == split_maxsplit_1(line)
    IN  IF Len(fields) # 2 THEN ValueError
        ELSE LET rest == split_maxsplit_1(fields[2])
             IN  IF Len(rest) # 2
                 THEN PublicKey(fields[1], fields[2], None, None)
                 ELSE LET names == split(rest[2], "@")
                      IN  IF Len(names) # 2
                          THEN PublicKey(fields[1], rest[1], Str(rest[2]), None)
                          ELSE PublicKey(fields[1], rest[1], Str(names[1]), Str(names[2]))

\* PublicKey.from_line: the key parsed from the line, or the ValueError raised
PublicKey_from_line(line) ==
    LET fields == split_maxsplit_1(line)
    IN  IF Len(fields) # 2 THEN ValueError
        ELSE IF \A i \in DOMAIN SUPPORTED_FORMAT : fields[1] # << SUPPORTED_FORMAT[i] >>
        THEN ValueError
        ELSE LET rest == split_maxsplit_1(fields[2])
             IN  IF Len(rest) # 2
                 THEN PublicKey(fields[1], fields[2], None, None)
                 ELSE LET names == split(rest[2], "@")
                      IN  IF Len(names) # 2
                          THEN PublicKey(fields[1], rest[1], Str(rest[2]), None)
                          ELSE PublicKey(fields[1], rest[1], Str(names[1]), Str(names[2]))

\* AuthorizedKeyEntry.__init__: the empty strings are removed from options
AuthorizedKeyEntry(publickey, options) ==
    [tag |-> "AuthorizedKeyEntry", publickey |-> publickey,
     options |-> SelectSeq(options, LAMBDA o : o # <<>>)]

\* AuthorizedKeyEntry.__str__
AuthorizedKeyEntry_str(self) ==
    lstrip(join(<<" ">>, << join(<<",">>, self.options), PublicKey_str(self.publickey) >>))

\* the loop of AuthorizedKeyEntry.from_line from the i-th supported header on
RECURSIVE from_line_headers(_, _)
from_line_headers(line, i) ==
    IF i > Len(SUPPORTED_FORMAT) THEN ValueError
    ELSE LET parts == rpartition(line, SUPPORTED_FORMAT[i])
         IN  IF parts[2] = <<>> THEN from_line_headers(parts[3], i + 1)
             ELSE LET publickey == PublicKey_from_line(parts[2] \o parts[3])
                  IN  IF publickey = ValueError THEN ValueError
                      ELSE AuthorizedKeyEntry(publickey, split(strip(parts[1]), ","))

\* AuthorizedKeyEntry.from_line: the entry parsed from the line, or the
\* ValueError raised
AuthorizedKeyEntry_from_line(line) == from_line_headers(line, 1)

(***************************************************************************)
(* Inputs                                                                  *)
(***************************************************************************)
\* the path arguments a caller may give: /f, a (= /d/a), /d/a, /d, s (= /d/s),
\* /e, /g, x (missing) and /
InputPaths ==
    { <<"/", "f">>, <<"a">>, <<"/", "d", "/", "a">>, <<"/", "d">>, <<"s">>,
      <<"/", "e">>, <<"/", "g">>, <<"x">>, <<"/">> }

\* the lists of at most n arguments drawn from S
SeqsUpTo(S, n) == UNION { [1..k -> S] : k \in 0..n }

\* the path arguments of the runs of the pool: /f, /d, a (= /d/a) and x (missing)
PoolPaths == { <<"/", "f">>, <<"/", "d">>, <<"a">>, <<"x">> }

\* the values of args.scpurl
Destinations == { <<"host:", "/", "r">>, <<"host:", "/", "r", "/">> }

\* the exit statuses of the rsync process
ExitStatuses == {0, 23}

(***************************************************************************)
(* RsyncBlock (src/mercurio/blocks.py)                                     *)
(***************************************************************************)
\* RsyncBlock.__init__: self.destination = destination
RsyncBlock(destination) == [destination |-> destination]

\* the command list of process_obj
RsyncBlock_command(self, obj) ==
    << <<"rsync">>, <<"-c">>, <<"--partial">>, obj.source,
       self.destination \o obj.destination >>

\* process_obj that does not look at what proc.wait() returns
RsyncBlock_process_obj_unchecked(self, obj, returncode) ==
    [raised |-> FALSE, value |-> obj]

\* RsyncBlock.process_obj, given what proc.wait() returns: the unit is
\* returned, or RsyncError is raised
RsyncBlock_process_obj(self, obj, returncode) ==
    IF returncode # 0
    THEN [raised |-> TRUE,
          value  |-> RsyncError(returncode, strerror(returncode),
                                RsyncBlock_command(self, obj))]
    ELSE [raised |-> FALSE, value |-> obj]

(***************************************************************************)
(* State                                                                   *)
(***************************************************************************)
VARIABLES
    args,        \* args.paths: the path arguments, a list of strings
    scpurl,      \* args.scpurl
    paths,       \* file_factory.paths
    gen,         \* file_factory._gen
    warnings,    \* the warnings logged so far, in order
    out,         \* what the get_obj calls of a single caller returned, in order
    blocks,      \* the RsyncBlock children of file_factory, by worker
    mpc,         \* where the main process is: "start", "join", "returned", "raised", "exited"
    wpc,         \* where each worker is: "created", "ready", "wait", "done", "failed"
    wcur,        \* per worker, the index in xfer of its latest unit (0: none)
    wres,        \* per worker, the outcome of its latest process_obj call
    xfer,        \* one record per unit handed to a worker, in the order of the pulls
    outcome,     \* what send returned (None) or the exception it let through
    exit_status, \* the exit status of the process (-1 while it runs)
    cpu_count,   \* what multiprocessing.cpu_count() returns on the host
    requested,   \* the number of workers the caller of send asks for (0: none)
    it,          \* the generator of the iteration of file_factory under way, or None
    iterated,    \* per iteration of file_factory so far, the units it has yielded
    line,        \* the line given to PublicKey.from_line and AuthorizedKeyEntry.from_line
    pk,          \* what PublicKey.from_line(line) gave (None: not called)
    pk_str,      \* Str(str(pk)) (None: not called)
    entry,       \* what AuthorizedKeyEntry.from_line(line) gave (None: not called)
    entry_str,   \* Str(str(entry)) (None: not called)
    authkeys,    \* the lines of ~/.ssh/authorized_keys (AUTHKEY_PATH)
    tmpfile,     \* the file ~/.ssh/authorized_keys~
    backup,      \* the file ~/.ssh/authorized_keys-
    rargs,       \* the args of revoke: publickey and owner, one of them None
    rpc,         \* where revoke is: "idle", "start", "scan", "scanned", "copied", "returned"
    stream,      \* the lines of the file that revoke opened for reading
    rpos,        \* the number of lines revoke has read from stream
    revoked_keys, \* revoked_keys, the entries revoke has matched so far
    aargs,       \* the args of authorize: publickey, owner (or None), destdir
    apc,         \* where authorize is: "idle", "start", "scan", "written", "returned"
    apos,        \* the number of lines authorize has read from authorized_keys
    aentry,      \* the entry authorize has built (None: not yet)
    aret,        \* what authorize returned: None, Errno(EINVAL) or Errno(EEXIST)
    dirs,        \* the directories that makedirs has created
    authkeys0    \* the lines of authorized_keys when authorize was called

\* the host and the caller of send
host_vars == <<cpu_count, requested>>

\* the iterations of file_factory other than through get_obj
iter_vars == <<it, iterated>>

\* the parsing and the formatting of one line of keys
key_vars == <<line, pk, pk_str, entry, entry_str>>

\* revoke and the files it works on
auth_vars == <<authkeys, tmpfile, backup, rargs, rpc, stream, rpos, revoked_keys>>

\* authorize
authz_vars == <<aargs, apc, apos, aentry, aret, dirs, authkeys0>>

\* what send and get_obj never touch
rest_vars == <<host_vars, iter_vars, key_vars, auth_vars, authz_vars>>

\* what send and its workers work on
send_vars == <<args, scpurl, paths, gen, warnings, out, blocks, mpc, wpc, wcur, wres,
               xfer, outcome, exit_status>>

vars == <<args, scpurl, paths, gen, warnings, out, blocks, mpc, wpc, wcur, wres,
          xfer, outcome, exit_status, rest_vars>>

Workers == DOMAIN blocks

\* a send that builds as many workers as its caller asks for, when it asks
send_build_requested(a, url, count) ==
    LET n == IF requested # 0 THEN requested ELSE count
    IN
    /\ args = a
    /\ scpurl = url
    /\ paths = FileFactory_paths(a)
    /\ gen = new_generator
    /\ warnings = <<>>
    /\ out = <<>>
    /\ blocks = [w \in 1..n |-> RsyncBlock(url)]
    /\ mpc = "start"
    /\ wpc = [w \in 1..n |-> "created"]
    /\ wcur = [w \in 1..n |-> 0]
    /\ wres = [w \in 1..n |-> None]
    /\ xfer = <<>>
    /\ outcome = None
    /\ exit_status = -1

\* send, lines 42-44: file_factory = FileFactory(args.paths) and one
\* RsyncBlock(args.scpurl, parent=file_factory) per processor
send_build(a, url, count) ==
    /\ args = a
    /\ scpurl = url
    /\ paths = FileFactory_paths(a)
    /\ gen = new_generator
    /\ warnings = <<>>
    /\ out = <<>>
    /\ blocks = [w \in 1..count |-> RsyncBlock(url)]
    /\ mpc = "start"
    /\ wpc = [w \in 1..count |-> "created"]
    /\ wcur = [w \in 1..count |-> 0]
    /\ wres = [w \in 1..count |-> None]
    /\ xfer = <<>>
    /\ outcome = None
    /\ exit_status = -1

\* the argument lists whose enumeration has at most MaxUnits units
PoolArgs == { a \in SeqsUpTo(PoolPaths, MaxPaths) : Len(list_FileFactory(a)) <= MaxUnits }

\* a file that does not exist, a file of these lines
NoFile == [exists |-> FALSE, lines |-> <<>>]
File(lines) == [exists |-> TRUE, lines |-> lines]

\* no iteration of file_factory is under way
iter_idle ==
    /\ it = None
    /\ iterated = <<>>

\* no line of keys is being parsed
key_idle ==
    /\ line = <<>>
    /\ pk = None
    /\ pk_str = None
    /\ entry = None
    /\ entry_str = None

\* revoke is not running
auth_idle ==
    /\ authkeys = <<>>
    /\ tmpfile = NoFile
    /\ backup = NoFile
    /\ rargs = [publickey |-> None, owner |-> None]
    /\ rpc = "idle"
    /\ stream = <<>>
    /\ rpos = 0
    /\ revoked_keys = <<>>

\* authorize is not running
authz_idle ==
    /\ aargs = [publickey |-> None, owner |-> None, destdir |-> <<>>]
    /\ apc = "idle"
    /\ apos = 0
    /\ aentry = None
    /\ aret = None
    /\ dirs = {}
    /\ authkeys0 = <<>>

\* nothing else is under way
rest_idle ==
    /\ iter_idle
    /\ key_idle
    /\ auth_idle
    /\ authz_idle

Init ==
    \E a \in PoolArgs, url \in Destinations, count \in 1..MaxWorkers :
        /\ cpu_count = count
        /\ requested = 0
        /\ send_build(a, url, cpu_count)
        /\ rest_idle

(***************************************************************************)
(* The pool: ProcessBlock.start, the workers' loop and ProcessBlock.join   *)
(***************************************************************************)
\* file_factory.start(): every worker starts running
ProcessBlock_start ==
    /\ wpc' = [w \in Workers |-> "ready"]

\* a worker has terminated: it saw the enumerator exhausted, or it raised
terminated(w) == wpc[w] \in {"done", "failed"}

\* file_factory.join() returns once every worker has terminated
ProcessBlock_join_done == \A w \in Workers : terminated(w)

\* the error join lets through: one of the errors the workers raised
ProcessBlock_join_errors == { wres[w].value : w \in { v \in Workers : wpc[v] = "failed" } }

\* send, line 47
send_start ==
    /\ mpc = "start"
    /\ ProcessBlock_start
    /\ mpc' = "join"
    /\ UNCHANGED <<args, scpurl, paths, gen, warnings, out, blocks, wcur, wres,
                   xfer, outcome, exit_status>>
    /\ UNCHANGED rest_vars

\* a worker pulls its next unit (one atomic pull of the shared enumerator) and
\* spawns rsync for it; on None it terminates
pull(w) ==
    /\ wpc[w] = "ready"
    /\ LET r   == get_obj(paths, gen)
           obj == FileFactory_process_obj(r.val)
       IN  /\ gen' = r.gen
           /\ warnings' = warnings \o r.warned
           /\ IF obj = None
              THEN /\ wpc' = [wpc EXCEPT ![w] = "done"]
                   /\ UNCHANGED <<wcur, xfer>>
              ELSE /\ wpc' = [wpc EXCEPT ![w] = "wait"]
                   /\ xfer' = Append(xfer,
                          [occ |-> r.gen.n, unit |-> obj, worker |-> w,
                           command |-> RsyncBlock_command(blocks[w], obj),
                           exited |-> FALSE, returncode |-> 0])
                   /\ wcur' = [wcur EXCEPT ![w] = Len(xfer) + 1]
    /\ UNCHANGED <<args, scpurl, paths, out, blocks, mpc, wres, outcome, exit_status>>
    /\ UNCHANGED rest_vars

\* proc.wait() in a pool where the error of one worker stops its siblings
wait_cancelling(w, rc) ==
    /\ wpc[w] = "wait"
    /\ LET res == RsyncBlock_process_obj(blocks[w], xfer[wcur[w]].unit, rc)
       IN  /\ wres' = [wres EXCEPT ![w] = res]
           /\ wpc' = IF res.raised THEN [v \in Workers |-> "failed"]
                                   ELSE [wpc EXCEPT ![w] = "ready"]
    /\ xfer' = [xfer EXCEPT ![wcur[w]].exited = TRUE, ![wcur[w]].returncode = rc]
    /\ UNCHANGED <<args, scpurl, paths, gen, warnings, out, blocks, mpc, wcur,
                   outcome, exit_status>>
    /\ UNCHANGED rest_vars

\* proc.wait() in a pool that puts the unit of a failed transfer back at the
\* head of the enumerator and lets the worker go on
wait_requeue(w, rc) ==
    /\ wpc[w] = "wait"
    /\ LET res == RsyncBlock_process_obj(blocks[w], xfer[wcur[w]].unit, rc)
       IN  /\ wres' = [wres EXCEPT ![w] = res]
           /\ wpc' = [wpc EXCEPT ![w] = "ready"]
           /\ gen' = IF res.raised
                     THEN [gen EXCEPT !.q = <<xfer[wcur[w]].unit>> \o @, !.n = @ - 1]
                     ELSE gen
    /\ xfer' = [xfer EXCEPT ![wcur[w]].exited = TRUE, ![wcur[w]].returncode = rc]
    /\ UNCHANGED <<args, scpurl, paths, warnings, out, blocks, mpc, wcur,
                   outcome, exit_status>>
    /\ UNCHANGED rest_vars

\* a process_obj that spawns rsync and returns the unit without proc.wait()
wait_skipped(w, rc) ==
    /\ wpc[w] = "wait"
    /\ wres' = [wres EXCEPT ![w] = [raised |-> FALSE, value |-> xfer[wcur[w]].unit]]
    /\ wpc' = [wpc EXCEPT ![w] = "ready"]
    /\ UNCHANGED <<args, scpurl, paths, gen, warnings, out, blocks, mpc, wcur,
                   xfer, outcome, exit_status>>
    /\ UNCHANGED rest_vars

\* proc.wait() returns in worker w with the exit status rc
wait(w, rc) ==
    /\ wpc[w] = "wait"
    /\ LET res == RsyncBlock_process_obj(blocks[w], xfer[wcur[w]].unit, rc)
       IN  /\ wres' = [wres EXCEPT ![w] = res]
           /\ wpc' = [wpc EXCEPT ![w] = IF res.raised THEN "failed" ELSE "ready"]
    /\ xfer' = [xfer EXCEPT ![wcur[w]].exited = TRUE, ![wcur[w]].returncode = rc]
    /\ UNCHANGED <<args, scpurl, paths, gen, warnings, out, blocks, mpc, wcur,
                   outcome, exit_status>>
    /\ UNCHANGED rest_vars

\* send, line 48, with a join that returns only once every worker has seen
\* the enumerator exhausted
send_join_drained ==
    /\ mpc = "join"
    /\ \A w \in Workers : wpc[w] = "done"
    /\ mpc' = "returned"
    /\ outcome' = None
    /\ UNCHANGED <<args, scpurl, paths, gen, warnings, out, blocks, wpc, wcur, wres,
                   xfer, exit_status>>
    /\ UNCHANGED rest_vars

\* send returning without file_factory.join()
send_join_nowait ==
    /\ mpc = "join"
    /\ mpc' = "returned"
    /\ outcome' = None
    /\ UNCHANGED <<args, scpurl, paths, gen, warnings, out, blocks, wpc, wcur, wres,
                   xfer, exit_status>>
    /\ UNCHANGED rest_vars

\* send, line 48: file_factory.join(), after which send returns None or lets
\* the error of the run through
send_join ==
    /\ mpc = "join"
    /\ ProcessBlock_join_done
    /\ IF ProcessBlock_join_errors = {}
       THEN /\ mpc' = "returned"
            /\ outcome' = None
       ELSE /\ mpc' = "raised"
            /\ outcome' \in ProcessBlock_join_errors
    /\ UNCHANGED <<args, scpurl, paths, gen, warnings, out, blocks, wpc, wcur, wres,
                   xfer, exit_status>>
    /\ UNCHANGED rest_vars

\* an exit status that ignores how send ended
main_exit_status_zero(pc, result) == 0

\* the exit status of exit(args.main(args)): exit(None) is 0, an exception that
\* nothing catches ends the interpreter with 1
main_exit_status(pc, result) == IF pc = "raised" THEN 1 ELSE 0

\* main, line 263
main_exit ==
    /\ mpc \in {"returned", "raised"}
    /\ exit_status' = main_exit_status(mpc, outcome)
    /\ mpc' = "exited"
    /\ UNCHANGED <<args, scpurl, paths, gen, warnings, out, blocks, wpc, wcur, wres,
                   xfer, outcome>>
    /\ UNCHANGED rest_vars

Next ==
    \/ send_start
    \/ \E w \in Workers : pull(w)
    \/ \E w \in Workers, rc \in ExitStatuses : wait(w, rc)
    \/ send_join
    \/ main_exit

Spec == Init /\ [][Next]_vars

(***************************************************************************)
(* A run in which every process gets to run and every rsync exits: the     *)
(* main process goes on when it can, a worker that is ready pulls, and a   *)
(* proc.wait() returns.                                                    *)
(***************************************************************************)
\* worker w is in its loop, about to pull: pull(w) is enabled
ready(w) == w \in Workers /\ wpc[w] = "ready"

\* weak fairness of pull(w), written with ready(w) for ENABLED pull(w) and
\* with "w leaves ready" for a pull(w) step, which is what a step of Next
\* that takes w out of ready is
pull_fairness(w) ==
    \/ []<>(~ready(w))
    \/ []<><<ready(w) /\ wpc'[w] # "ready">>_vars

Fairness ==
    /\ WF_vars(send_start)
    /\ WF_vars(send_join)
    /\ WF_vars(main_exit)
    /\ \A w \in 1..MaxWorkers :
          /\ pull_fairness(w)
          /\ WF_vars(w \in Workers /\ \E rc \in ExitStatuses : wait(w, rc))

SpecLive == Init /\ [][Next]_vars /\ Fairness

(***************************************************************************)
(* send called by a caller that may ask for a number of workers            *)
(***************************************************************************)
\* the path arguments of these runs
OverridePaths == { <<"/", "g">> }

InitOverride ==
    \E a \in SeqsUpTo(OverridePaths, 1), url \in Destinations,
       count \in 1..MaxWorkers, asked \in 0..MaxWorkers :
        /\ cpu_count = count
        /\ requested = asked
        /\ send_build(a, url, cpu_count)
        /\ rest_idle

SpecOverride == InitOverride /\ [][Next]_vars

(***************************************************************************)
(* A single caller of get_obj (src/tests/unit/test_blocks.py, test_get_obj)*)
(***************************************************************************)
InitEnum ==
    \E a \in SeqsUpTo(InputPaths, MaxPaths), url \in {<<"host:", "/", "r">>} :
        /\ cpu_count = 1
        /\ requested = 0
        /\ send_build(a, url, cpu_count)
        /\ rest_idle

\* the number of calls that returned None
nones(seq) == Len(SelectSeq(seq, LAMBDA v : v = None))

\* one more call of file_factory.get_obj()
call_get_obj ==
    /\ nones(out) < MaxExtraCalls
    /\ LET r == get_obj(paths, gen)
       IN  /\ gen' = r.gen
           /\ warnings' = warnings \o r.warned
           /\ out' = Append(out, r.val)
    /\ UNCHANGED <<args, scpurl, paths, blocks, mpc, wpc, wcur, wres, xfer,
                   outcome, exit_status>>
    /\ UNCHANGED rest_vars

NextEnum == call_get_obj

SpecEnum == InitEnum /\ [][NextEnum]_vars

(***************************************************************************)
(* A caller that also iterates file_factory (test_get_obj: list(file_factory)*)
(* and "for _ in file_factory" around the get_obj calls)                   *)
(***************************************************************************)
\* iter(file_factory) handing out a generator that has nothing left to yield
call_iter_exhausted ==
    /\ it = None
    /\ Len(iterated) < MaxIterations
    /\ it' = [pi |-> Len(paths) + 1, q |-> <<>>, n |-> 0]
    /\ iterated' = Append(iterated, <<>>)
    /\ UNCHANGED <<args, scpurl, paths, gen, warnings, out, blocks, mpc, wpc, wcur,
                   wres, xfer, outcome, exit_status, host_vars, key_vars, auth_vars,
                   authz_vars>>

\* iter(file_factory): __iter__ is a generator function, so each call builds
\* a generator of its own, at the start of the loop over self.paths
call_iter ==
    /\ it = None
    /\ Len(iterated) < MaxIterations
    /\ it' = new_generator
    /\ iterated' = Append(iterated, <<>>)
    /\ UNCHANGED <<args, scpurl, paths, gen, warnings, out, blocks, mpc, wpc, wcur,
                   wres, xfer, outcome, exit_status, host_vars, key_vars, auth_vars,
                   authz_vars>>

\* one more next() on the generator of the iteration under way: the unit is
\* added to what this iteration yielded; StopIteration ends the iteration
iter_next ==
    /\ it # None
    /\ LET r == generator_next(paths, it)
       IN  /\ warnings' = warnings \o r.warned
           /\ IF r.val = StopIteration
              THEN /\ it' = None
                   /\ UNCHANGED iterated
              ELSE /\ it' = r.gen
                   /\ iterated' = [iterated EXCEPT ![Len(iterated)] = Append(@, r.val)]
    /\ UNCHANGED <<args, scpurl, paths, gen, out, blocks, mpc, wpc, wcur,
                   wres, xfer, outcome, exit_status, host_vars, key_vars, auth_vars,
                   authz_vars>>

NextIter ==
    \/ call_get_obj
    \/ call_iter
    \/ iter_next

SpecIter == InitEnum /\ [][NextIter]_vars

(***************************************************************************)
(* Lines of keys parsed and formatted back (src/tests/unit/                *)
(* test_publickey.py)                                                      *)
(***************************************************************************)
\* the headers of SUPPORTED_FORMAT, as a set
Headers == { SUPPORTED_FORMAT[i] : i \in DOMAIN SUPPORTED_FORMAT }

\* the keys, the names of owners and of origins: strings without whitespace
\* and without "@"; the last name holds the word ssh-rsa (ssh-rsa-host)
Keys == { <<"K">> }
Names == { <<"bob">>, <<"host">>, <<"ssh-rsa", "-host">> }

\* the comments of a well-formed line: none, owner, owner@origin
Comments ==
    { [owner |-> None, origin |-> None] }
    \cup { [owner |-> Str(o), origin |-> None] : o \in Names }
    \cup { [owner |-> Str(o), origin |-> Str(h)] : o \in Names, h \in Names }

\* the text of a comment
comment_text(c) ==
    IF c.owner = None THEN <<>>
    ELSE IF c.origin = None THEN c.owner.str
    ELSE c.owner.str \o <<"@">> \o c.origin.str

\* the line made of a header, a key and a comment, single spaces between
key_line(header, key, c) ==
    IF c.owner = None THEN <<header, " ">> \o key
    ELSE <<header, " ">> \o key \o <<" ">> \o comment_text(c)

WellFormedKeyLines == { key_line(h, k, c) : h \in Headers, k \in Keys, c \in Comments }

\* the options of an entry: non-empty strings without comma, one of them
\* with a space inside, as authorize writes it
Options ==
    { <<"no-pty">>, <<"no-X11-forwarding">>,
      <<"command=\"/bin/rrsync", " ", "~/mercurio/bob\"">> }

OptionLists == SeqsUpTo(Options, MaxOptions)

\* the line made of a list of options and a well-formed line of key
entry_line(options, keyline) ==
    IF options = <<>> THEN keyline ELSE join(<<",">>, options) \o <<" ">> \o keyline

WellFormedEntryLines ==
    { entry_line(o, l) : o \in OptionLists \ {<<>>}, l \in WellFormedKeyLines }

\* any line of at most MaxLineLen of these tokens
LineTokens == { " ", "@", "K", "ssh-rsa", "ssh-foo" }

AnyLines == SeqsUpTo(LineTokens, MaxLineLen)

InitKey ==
    /\ cpu_count = 1
    /\ requested = 0
    /\ send_build(<<>>, <<"host:", "/", "r">>, cpu_count)
    /\ iter_idle
    /\ auth_idle
    /\ authz_idle
    /\ line \in WellFormedKeyLines \cup WellFormedEntryLines \cup AnyLines
    /\ pk = None
    /\ pk_str = None
    /\ entry = None
    /\ entry_str = None

\* pk = PublicKey.from_line(line)
call_PublicKey_from_line ==
    /\ pk = None
    /\ pk' = PublicKey_from_line(line)
    /\ UNCHANGED <<send_vars, host_vars, iter_vars, auth_vars, authz_vars, line, pk_str, entry, entry_str>>

\* str(pk), for a pk that was parsed
call_PublicKey_str ==
    /\ pk \notin {None, ValueError}
    /\ pk_str = None
    /\ pk_str' = Str(PublicKey_str(pk))
    /\ UNCHANGED <<send_vars, host_vars, iter_vars, auth_vars, authz_vars, line, pk, entry, entry_str>>

\* entry = AuthorizedKeyEntry.from_line(line)
call_AuthorizedKeyEntry_from_line ==
    /\ entry = None
    /\ entry' = AuthorizedKeyEntry_from_line(line)
    /\ UNCHANGED <<send_vars, host_vars, iter_vars, auth_vars, authz_vars, line, pk, pk_str, entry_str>>

\* str(entry), for an entry that was parsed
call_AuthorizedKeyEntry_str ==
    /\ entry \notin {None, ValueError}
    /\ entry_str = None
    /\ entry_str' = Str(AuthorizedKeyEntry_str(entry))
    /\ UNCHANGED <<send_vars, host_vars, iter_vars, auth_vars, authz_vars, line, pk, pk_str, entry>>

NextKey ==
    \/ call_PublicKey_from_line
    \/ call_PublicKey_str
    \/ call_AuthorizedKeyEntry_from_line
    \/ call_AuthorizedKeyEntry_str

SpecKey == InitKey /\ [][NextKey]_vars

(***************************************************************************)
(* revoke (src/mercurio/cli.py)                                            *)
(***************************************************************************)
\* opt.startswith('command="/bin/rrsync ')
startswith_rrsync(opt) ==
    /\ Len(opt) >= 2
    /\ opt[1] = "command=\"/bin/rrsync"
    /\ opt[2] = " "

\* _is_a_match(entry): by the key when revoke is given a public key, else by
\* the owner, an entry without owner never matching
is_a_match(a, e) ==
    IF a.publickey # None
    THEN a.publickey.key = e.publickey.key
    ELSE IF or_empty(e.publickey.owner) = <<>> THEN FALSE
    ELSE a.owner = e.publickey.owner

\* the body of the loop "for line in stream" that takes every entry for one
\* that authorize wrote
scan_line_any_entry(a, l) ==
    LET e == AuthorizedKeyEntry_from_line(rstrip(l))
    IN  IF e = ValueError THEN [write |-> TRUE, revoked |-> <<>>]
        ELSE IF is_a_match(a, e) THEN [write |-> FALSE, revoked |-> <<e>>]
        ELSE [write |-> TRUE, revoked |-> <<>>]

\* the body of the loop "for line in stream": whether the line is written
\* to tmpfile, and the entry appended to revoked_keys if any
scan_line(a, l) ==
    LET e == AuthorizedKeyEntry_from_line(rstrip(l))
    IN  IF e = ValueError THEN [write |-> TRUE, revoked |-> <<>>]
        ELSE IF ~\E i \in DOMAIN e.options : startswith_rrsync(e.options[i])
        THEN [write |-> TRUE, revoked |-> <<>>]
        ELSE IF is_a_match(a, e) THEN [write |-> FALSE, revoked |-> <<e>>]
        ELSE [write |-> TRUE, revoked |-> <<>>]

\* the option that authorize writes first
RrsyncOption == <<"command=\"/bin/rrsync", " ", "~/mercurio/bob\"">>

\* the lines of authorized_keys: an entry of authorize for bob's key K; one
\* for alice's key K2; bob's key with other options; a comment; an entry of
\* authorize for K without owner; one for K whose origin holds the word
\* ssh-rsa
FileLines ==
    { RrsyncOption \o <<",", "no-pty", " ", "ssh-rsa", " ", "K", " ", "bob", "@", "host", "\n">>,
      RrsyncOption \o <<" ", "ssh-ed25519", " ", "K2", " ", "alice", "\n">>,
      <<"no-pty", " ", "ssh-rsa", " ", "K", " ", "bob", "\n">>,
      <<"#", " ", "note", "\n">>,
      RrsyncOption \o <<" ", "ssh-rsa", " ", "K", "\n">>,
      RrsyncOption \o <<" ", "ssh-ed25519", " ", "K", " ", "bob", "@", "ssh-rsa", "-host", "\n">> }

\* what revoke is asked: -k KEYFILE (the key K) or -o OWNER
RevokeArgs ==
    { [publickey |-> PublicKey(<<"ssh-rsa">>, <<"K">>, Str(<<"bob">>), Str(<<"host">>)),
       owner |-> None],
      [publickey |-> None, owner |-> Str(<<"bob">>)],
      [publickey |-> None, owner |-> Str(<<"carol">>)] }

\* a backup left by an earlier run
StaleBackup == File(<< <<"stale", "\n">> >>)

InitRevoke ==
    /\ cpu_count = 1
    /\ requested = 0
    /\ send_build(<<>>, <<"host:", "/", "r">>, cpu_count)
    /\ iter_idle
    /\ key_idle
    /\ authz_idle
    /\ authkeys \in SeqsUpTo(FileLines, MaxFileLines)
    /\ tmpfile = NoFile
    /\ backup \in {NoFile, StaleBackup}
    /\ rargs \in RevokeArgs
    /\ rpc = "start"
    /\ stream = <<>>
    /\ rpos = 0
    /\ revoked_keys = <<>>

\* revoke, lines 121-122: authorized_keys is opened for reading and
\* authorized_keys~ is created, or emptied, for writing
revoke_open ==
    /\ rpc = "start"
    /\ stream' = authkeys
    /\ tmpfile' = File(<<>>)
    /\ rpc' = "scan"
    /\ UNCHANGED <<send_vars, host_vars, iter_vars, key_vars, authz_vars,
                   authkeys, backup, rargs, rpos, revoked_keys>>

\* the loop body without the test on the options
revoke_line_any_entry ==
    /\ rpc = "scan"
    /\ rpos < Len(stream)
    /\ LET r == scan_line_any_entry(rargs, stream[rpos + 1])
       IN  /\ tmpfile' = IF r.write THEN File(Append(tmpfile.lines, stream[rpos + 1]))
                                    ELSE tmpfile
           /\ revoked_keys' = revoked_keys \o r.revoked
    /\ rpos' = rpos + 1
    /\ UNCHANGED <<send_vars, host_vars, iter_vars, key_vars, authz_vars,
                   authkeys, backup, rargs, rpc, stream>>

\* revoke, lines 123-142: one turn of the loop "for line in stream"
revoke_line ==
    /\ rpc = "scan"
    /\ rpos < Len(stream)
    /\ LET r == scan_line(rargs, stream[rpos + 1])
       IN  /\ tmpfile' = IF r.write THEN File(Append(tmpfile.lines, stream[rpos + 1]))
                                    ELSE tmpfile
           /\ revoked_keys' = revoked_keys \o r.revoked
    /\ rpos' = rpos + 1
    /\ UNCHANGED <<send_vars, host_vars, iter_vars, key_vars, authz_vars,
                   authkeys, backup, rargs, rpc, stream>>

\* the end of the loop: both files are closed
revoke_close ==
    /\ rpc = "scan"
    /\ rpos = Len(stream)
    /\ rpc' = "scanned"
    /\ UNCHANGED <<send_vars, host_vars, iter_vars, key_vars, authz_vars,
                   authkeys, tmpfile, backup, rargs, stream, rpos, revoked_keys>>

\* revoke, lines 144-146: nothing matched, revoke returns
revoke_no_match ==
    /\ rpc = "scanned"
    /\ revoked_keys = <<>>
    /\ rpc' = "returned"
    /\ UNCHANGED <<send_vars, host_vars, iter_vars, key_vars, authz_vars,
                   authkeys, tmpfile, backup, rargs, stream, rpos, revoked_keys>>

\* revoke going on to the replacement with no backup made
revoke_copy2_skipped ==
    /\ rpc = "scanned"
    /\ revoked_keys # <<>>
    /\ rpc' = "copied"
    /\ UNCHANGED <<send_vars, host_vars, iter_vars, key_vars, authz_vars,
                   authkeys, tmpfile, backup, rargs, stream, rpos, revoked_keys>>

\* revoke, line 149: copy2(AUTHKEY_PATH, AUTHKEY_PATH + '-')
revoke_copy2 ==
    /\ rpc = "scanned"
    /\ revoked_keys # <<>>
    /\ backup' = File(authkeys)
    /\ rpc' = "copied"
    /\ UNCHANGED <<send_vars, host_vars, iter_vars, key_vars, authz_vars,
                   authkeys, tmpfile, rargs, stream, rpos, revoked_keys>>

\* revoke, lines 152-153: os.replace of authorized_keys by authorized_keys~,
\* in one step; revoke then returns
revoke_replace ==
    /\ rpc = "copied"
    /\ authkeys' = tmpfile.lines
    /\ tmpfile' = NoFile
    /\ rpc' = "returned"
    /\ UNCHANGED <<send_vars, host_vars, iter_vars, key_vars, authz_vars,
                   backup, rargs, stream, rpos, revoked_keys>>

NextRevoke ==
    \/ revoke_open
    \/ revoke_line
    \/ revoke_close
    \/ revoke_no_match
    \/ revoke_copy2
    \/ revoke_replace

SpecRevoke == InitRevoke /\ [][NextRevoke]_vars

(***************************************************************************)
(* authorize (src/mercurio/cli.py).  A file is the sequence of the lines   *)
(* that reading it gives: each ends with "\n", but for the last one of a   *)
(* file that does not end with a newline.                                  *)
(***************************************************************************)
EEXIST == 17
EINVAL == 22

\* an int, where a value is an int or None
Errno(n) == [errno |-> n]

\* sub in s
contains(s, sub) ==
    \E i \in 0..(Len(s) - Len(sub)) : SubSeq(s, i + 1, i + Len(sub)) = sub

\* Template(t).substitute(owner=owner): $owner replaced by str(owner)
RECURSIVE substitute(_, _)
substitute(t, owner) ==
    IF t = <<>> THEN <<>>
    ELSE IF Head(t) = "$owner"
    THEN (IF owner = None THEN <<"None">> ELSE owner.str) \o substitute(Tail(t), owner)
    ELSE <<Head(t)>> \o substitute(Tail(t), owner)

\* args.publickey after lines 56-57: its owner is args.owner when one is given
authorize_publickey(a) ==
    IF or_empty(a.owner) # <<>> THEN [a.publickey EXCEPT !.owner = a.owner]
    ELSE a.publickey

\* lines 58-63: no owner is given, the template needs one and the key has none
authorize_no_owner(a) ==
    /\ or_empty(a.owner) = <<>>
    /\ contains(a.destdir, <<"$owner">>)
    /\ or_empty(a.publickey.owner) = <<>>

\* lines 67-72: the entry for the key, with the four options
authorize_entry(a) ==
    LET publickey == authorize_publickey(a)
        destdir   == substitute(a.destdir, publickey.owner)
    IN  AuthorizedKeyEntry(publickey,
            << <<"command=\"/bin/rrsync", " ">> \o destdir \o <<"\"">>,
               <<"no-port-forwarding">>, <<"no-X11-forwarding">>, <<"no-pty">> >>)

\* stream.write(text) at the end of the file, for a text of one line: the
\* text goes on the last line when that line has no end of line
file_write(lines, text) ==
    IF lines # <<>> /\ lines[Len(lines)][Len(lines[Len(lines)])] # "\n"
    THEN [lines EXCEPT ![Len(lines)] = @ \o text]
    ELSE Append(lines, text)

\* the lines of authorized_keys before authorize: an entry of authorize for
\* bob's key K, an entry for alice's key K2 and a comment
AuthorizeLines ==
    { RrsyncOption \o <<",", "no-pty", " ", "ssh-rsa", " ", "K", " ", "bob", "@", "host", "\n">>,
      <<"no-pty", " ", "ssh-ed25519", " ", "K2", " ", "alice", "\n">>,
      <<"#", " ", "note", "\n">> }

\* the file without the end of line of its last line
chopped(lines) ==
    IF lines = <<>> THEN lines
    ELSE [lines EXCEPT ![Len(lines)] = SubSeq(@, 1, Len(@) - 1)]

AuthorizeFiles ==
    LET whole == SeqsUpTo(AuthorizeLines, MaxFileLines)
    IN  whole \cup { chopped(f) : f \in whole }

\* what authorize is asked: KEYFILE (the key K, in use, or the key N, with
\* or without a comment), -o OWNER or not, -d DESTDIR or its default
AuthorizeArgs ==
    { [publickey |-> k, owner |-> o, destdir |-> d] :
        k \in { PublicKey(<<"ssh-rsa">>, <<"K">>, Str(<<"bob">>), Str(<<"host">>)),
                PublicKey(<<"ssh-rsa">>, <<"N">>, Str(<<"dan">>), Str(<<"host">>)),
                PublicKey(<<"ssh-rsa">>, <<"N">>, None, None) },
        o \in { None, Str(<<"carol">>) },
        d \in { <<"~/mercurio/", "$owner">>, <<"~/shared">> } }

InitAuthorize ==
    /\ cpu_count = 1
    /\ requested = 0
    /\ send_build(<<>>, <<"host:", "/", "r">>, cpu_count)
    /\ iter_idle
    /\ key_idle
    /\ authkeys \in AuthorizeFiles
    /\ tmpfile = NoFile
    /\ backup = NoFile
    /\ rargs = [publickey |-> None, owner |-> None]
    /\ rpc = "idle"
    /\ stream = <<>>
    /\ rpos = 0
    /\ revoked_keys = <<>>
    /\ aargs \in AuthorizeArgs
    /\ apc = "start"
    /\ apos = 0
    /\ aentry = None
    /\ aret = None
    /\ dirs = {}
    /\ authkeys0 = authkeys

\* authorize, lines 56-65 on the path that returns EINVAL
authorize_einval ==
    /\ apc = "start"
    /\ authorize_no_owner(aargs)
    /\ aret' = Errno(EINVAL)
    /\ apc' = "returned"
    /\ UNCHANGED <<send_vars, host_vars, iter_vars, key_vars, auth_vars,
                   aargs, apos, aentry, dirs, authkeys0>>

\* authorize, lines 56-74: the entry is built and authorized_keys is opened
authorize_open ==
    /\ apc = "start"
    /\ ~authorize_no_owner(aargs)
    /\ aentry' = authorize_entry(aargs)
    /\ apc' = "scan"
    /\ UNCHANGED <<send_vars, host_vars, iter_vars, key_vars, auth_vars,
                   aargs, apos, aret, dirs, authkeys0>>

\* authorize, lines 75-78: one turn of the loop "for line in stream"
authorize_line ==
    /\ apc = "scan"
    /\ apos < Len(authkeys)
    /\ IF contains(authkeys[apos + 1], aentry.publickey.key)
       THEN /\ aret' = Errno(EEXIST)
            /\ apc' = "returned"
            /\ UNCHANGED apos
       ELSE /\ apos' = apos + 1
            /\ UNCHANGED <<aret, apc>>
    /\ UNCHANGED <<send_vars, host_vars, iter_vars, key_vars, auth_vars,
                   aargs, aentry, dirs, authkeys0>>

\* authorize, line 80: stream.write(str(entry) + '\n') after the last line
authorize_write ==
    /\ apc = "scan"
    /\ apos = Len(authkeys)
    /\ authkeys' = file_write(authkeys, AuthorizedKeyEntry_str(aentry) \o <<"\n">>)
    /\ apc' = "written"
    /\ UNCHANGED <<send_vars, host_vars, iter_vars, key_vars,
                   tmpfile, backup, rargs, rpc, stream, rpos, revoked_keys,
                   aargs, apos, aentry, aret, dirs, authkeys0>>

\* authorize, line 82: makedirs(expanduser(destdir)); authorize returns None
authorize_makedirs ==
    /\ apc = "written"
    /\ dirs' = dirs \cup { substitute(aargs.destdir, aentry.publickey.owner) }
    /\ apc' = "returned"
    /\ UNCHANGED <<send_vars, host_vars, iter_vars, key_vars, auth_vars,
                   aargs, apos, aentry, aret, authkeys0>>

NextAuthorize ==
    \/ authorize_einval
    \/ authorize_open
    \/ authorize_line
    \/ authorize_write
    \/ authorize_makedirs

SpecAuthorize == InitAuthorize /\ [][NextAuthorize]_vars

(***************************************************************************)
(* Properties of the run of the pool (specification Spec)                  *)
(***************************************************************************)
\* the enumerator has no unit left: the next next() raises StopIteration
exhausted == generator_next(paths, gen).val = StopIteration

\* send is over: it returned, or it let an error through
run_over == mpc \in {"returned", "raised", "exited"}

\* the workers that raised
failed_workers == { w \in Workers : wpc[w] = "failed" }

\* the number of entries of seq that satisfy Test
count(seq, Test(_)) == Len(SelectSeq(seq, Test))

\* C1: in every run, successful or failed, no unit produced by the enumerator
\* (the k-th unit it yields, for each k) is handed to a worker twice: two
\* records of xfer never hold the same yield of the generator, so no two
\* workers ever receive the same unit.
C1_AtMostOnceDelivery ==
    \A i, j \in DOMAIN xfer : i # j => xfer[i].occ # xfer[j].occ

\* a failed run in which two different workers have each received units
C1_Witness ==
    /\ failed_workers # {}
    /\ Len(xfer) >= 3
    /\ \E i, j \in DOMAIN xfer : xfer[i].worker # xfer[j].worker

\* C2: when no transfer fails, send returns only after each of the M units of
\* the enumeration has been handed to exactly one worker and processed by it:
\* the k-th record of xfer is the k-th unit, its rsync has exited with 0, and
\* there are exactly M records.
C2_SuccessProcessesAll ==
    (run_over /\ failed_workers = {}) =>
        LET E == list_FileFactory(args)
        IN  /\ Len(xfer) = Len(E)
            /\ \A i \in DOMAIN xfer :
                  /\ xfer[i].occ = i
                  /\ xfer[i].unit = E[i]
                  /\ xfer[i].exited
                  /\ xfer[i].returncode = 0

\* a successful run of three units or more shared by two workers is over
C2_Witness ==
    /\ run_over
    /\ failed_workers = {}
    /\ Len(xfer) >= 3
    /\ \E i, j \in DOMAIN xfer : xfer[i].worker # xfer[j].worker

\* the regular files reachable from the arguments a: those an argument
\* resolves to, and those beneath a directory an argument resolves to
is_prefix(p, q) == Len(p) <= Len(q) /\ SubSeq(q, 1, Len(p)) = p

AllNodes ==
    { <<"f">>, <<"d">>, <<"e">>, <<"g">>, <<"d", "a">>, <<"d", "s">>,
      <<"d", "s", "c">>, <<"d", "s", "p">>, <<"g", "h">>, <<"g", "i">> }

reachable_files(a) ==
    { p \in AllNodes :
        /\ kind(p) = "file"
        /\ \E i \in DOMAIN a :
              /\ ~resolve_raises(Path(a[i]))
              /\ is_prefix(resolve(Path(a[i])).parts, p) }

\* C3: in a successful run over any list of input paths, rsync is invoked
\* exactly once for each distinct regular file reachable from the inputs.
C3_EachFileOnce ==
    (run_over /\ failed_workers = {}) =>
        \A p \in reachable_files(args) :
            count(xfer, LAMBDA x : x.unit.source = str([abs |-> TRUE, parts |-> p])) = 1

\* C4: if any worker raises, the run fails: send lets one of the workers'
\* errors through and the process exits with a non-zero status; the exit
\* status is 0 only when the enumerator was exhausted and no worker raised.
C4_FailurePropagates ==
    /\ (run_over /\ failed_workers # {}) =>
          /\ mpc # "returned"
          /\ outcome \in { wres[w].value : w \in failed_workers }
          /\ outcome.tag = "RsyncError"
    /\ mpc = "exited" => (exit_status = 0 <=> failed_workers = {})
    /\ (mpc = "exited" /\ exit_status = 0) => exhausted

\* the process has exited with a non-zero status after one worker raised and
\* another one terminated normally
C4_Witness ==
    /\ mpc = "exited"
    /\ exit_status # 0
    /\ \E w \in Workers : wpc[w] = "done"
    /\ failed_workers # {}

\* the command process_obj runs for a unit
expected_command(unit) ==
    << <<"rsync">>, <<"-c">>, <<"--partial">>, unit.source, scpurl \o unit.destination >>

\* the index of the last record of xfer that belongs to worker w (0: none)
last_of(w) ==
    LET mine == { i \in DOMAIN xfer : xfer[i].worker = w }
    IN  IF mine = {} THEN 0 ELSE CHOOSE i \in mine : \A j \in mine : j <= i

\* C5: when rsync exits with a non-zero status for a unit, process_obj raises
\* an RsyncError carrying that status and the exact command, and the worker
\* that raised pulls no further unit; when rsync exits with 0, process_obj
\* returns the unit and the worker goes on to pull (it is ready to pull, or
\* it has pulled None and terminated).
C5_ErrorStopsWorker ==
    \A i \in DOMAIN xfer :
        LET x == xfer[i]
            w == x.worker
        IN  /\ (x.exited /\ x.returncode # 0) =>
                  /\ wpc[w] = "failed"
                  /\ last_of(w) = i
                  /\ wres[w].raised
                  /\ wres[w].value.tag = "RsyncError"
                  /\ wres[w].value.errno = x.returncode
                  /\ wres[w].value.filename = expected_command(x.unit)
            /\ (x.exited /\ x.returncode = 0 /\ last_of(w) = i) =>
                  /\ wpc[w] \in {"ready", "done"}
                  /\ wres[w] = [raised |-> FALSE, value |-> x.unit]

\* one worker has raised on its second unit, after a first one that succeeded,
\* while the run went on
C5_Witness ==
    \E w \in failed_workers :
        /\ count(xfer, LAMBDA x : x.worker = w) >= 2
        /\ Len(xfer) > last_of(w)

\* C6: send never returns while a worker is still running or a transfer is in
\* flight; once every worker has terminated the pending join returns; and on
\* the success path the enumerator is exhausted when the last worker
\* terminates.
C6_CompleteWhenAllTerminated ==
    /\ run_over =>
          /\ \A w \in Workers : terminated(w)
          /\ \A i \in DOMAIN xfer : xfer[i].exited
    /\ (mpc = "join" /\ \A w \in Workers : terminated(w)) => ENABLED send_join
    /\ (\A w \in Workers : wpc[w] = "done") => exhausted

\* send has returned from a run in which two workers transferred units
C6_Witness ==
    /\ mpc = "returned"
    /\ Cardinality(Workers) >= 2
    /\ \E i, j \in DOMAIN xfer : xfer[i].worker # xfer[j].worker

(***************************************************************************)
(* Properties of the enumerator (specification SpecEnum)                   *)
(***************************************************************************)
\* the units among the values get_obj returned, in order
units_of(seq) == SelectSeq(seq, LAMBDA v : v # None)

\* get_obj has returned None at least once
saw_none == nones(out) >= 1

\* C7: successive get_obj calls return each unit of the enumeration exactly
\* once, in turn, and then None; once None was returned every later call
\* returns None as well, never a unit and never an exception.
C7_UnitsThenNone ==
    LET E == list_FileFactory(args)
    IN  \A i \in DOMAIN out : out[i] = IF i <= Len(E) THEN E[i] ELSE None

\* an enumeration of two units or more was drained and get_obj was called
\* twice more
C7_Witness ==
    /\ Len(list_FileFactory(args)) >= 2
    /\ Len(out) = Len(list_FileFactory(args)) + 2

\* whether the argument s names a path that does not exist
is_missing(s) == kind(absolute(Path(s)).parts) = "missing"

\* C8: an input path that does not exist contributes no unit and exactly one
\* warning naming it; the enumeration goes on, and the units of the other
\* input paths are all produced, as if the missing paths had not been given.
C8_MissingPathWarns ==
    LET gone   == SelectSeq(args, is_missing)
        others == SelectSeq(args, LAMBDA s : ~is_missing(s))
        E      == list_FileFactory(others)
        U      == units_of(out)
    IN  /\ Len(U) <= Len(E)
        /\ \A i \in DOMAIN U : U[i] = E[i]
        /\ Len(warnings) <= Len(gone)
        /\ \A i \in DOMAIN warnings : warnings[i] = gone[i]
        /\ saw_none => (U = E /\ warnings = gone)

\* the list <<missing, existing>> was enumerated to its end: one warning, and
\* the units of the existing path
C8_Witness ==
    /\ saw_none
    /\ Len(args) = 2
    /\ is_missing(args[1])
    /\ Len(warnings) = 1
    /\ units_of(out) # <<>>

\* the regular files beneath the directory at absolute path d
files_beneath(d) == { p \in AllNodes : kind(p) = "file" /\ is_prefix(d, p) /\ p # d }

\* the directories beneath the directory at absolute path d
dirs_beneath(d) == { p \in AllNodes : kind(p) = "dir" /\ is_prefix(d, p) /\ p # d }

\* the absolute path with the components p
abs_path(p) == [abs |-> TRUE, parts |-> p]

\* the path of directory p made relative to directory base (os.path.relpath)
relative_path(p, base) ==
    IF p = base THEN <<".">>
    ELSE join_parts(SubSeq(p, Len(base) + 1, Len(p)))

\* the parent directory of the absolute path p
dirname(p) == IF p = <<>> THEN p ELSE SubSeq(p, 1, Len(p) - 1)

\* C9: enumerating [D] for an existing directory D yields exactly one unit per
\* regular file beneath D, each with the file's parent directory made relative
\* to D's parent as destination; a directory of K regular files and no
\* subdirectory yields exactly K units, all with destination basename(D).
C9_OneUnitPerRegularFile ==
    (saw_none /\ Len(args) = 1 /\ kind(absolute(Path(args[1])).parts) = "dir") =>
        LET D == absolute(Path(args[1])).parts
            U == units_of(out)
        IN  /\ Len(U) = Cardinality(files_beneath(D))
            /\ \A p \in files_beneath(D) :
                  count(U, LAMBDA u : u = RsyncUnit(str(abs_path(p)),
                                   relative_path(dirname(p), dirname(D)))) = 1
            /\ (dirs_beneath(D) = {} /\ D # <<>>) =>
                  \A i \in DOMAIN U : U[i].destination = <<D[Len(D)]>>

\* whether the argument s names a regular file
is_file_arg(s) == kind(absolute(Path(s)).parts) = "file"

\* the unit expected for an argument s that names a regular file
file_unit(s) == RsyncUnit(<<"/">> \o join_parts(absolute(Path(s)).parts), <<>>)

\* C10: each input path that resolves to a regular file yields exactly one
\* unit, with the resolved absolute path as source and the empty string as
\* destination (as many such units as the list names the file); a list of K
\* distinct files yields exactly those K units.
C10_FileYieldsOneUnit ==
    saw_none =>
        LET U == units_of(out)
        IN  /\ \A i \in DOMAIN args : is_file_arg(args[i]) =>
                  count(U, LAMBDA u : u = file_unit(args[i]))
                    = count(args, LAMBDA s : is_file_arg(s) /\ file_unit(s) = file_unit(args[i]))
            /\ ( /\ \A i \in DOMAIN args : is_file_arg(args[i])
                 /\ \A i, j \in DOMAIN args : i # j => file_unit(args[i]) # file_unit(args[j]) )
               => /\ Len(U) = Len(args)
                  /\ \A i \in DOMAIN args : U[i] = file_unit(args[i])

\* two distinct files, the first one named by a relative path, were enumerated
C10_Witness ==
    /\ saw_none
    /\ Len(args) = 2
    /\ args[1] = <<"a">>
    /\ is_file_arg(args[2])
    /\ file_unit(args[1]) # file_unit(args[2])
    /\ Len(units_of(out)) = 2

(***************************************************************************)
(* Properties of the destination and of the siblings (specification Spec)  *)
(***************************************************************************)
\* the path join of a destination root with a suffix: the two separated as
\* path components, the root itself for an empty suffix
path_join(root, suffix) ==
    IF suffix = <<>> THEN root
    ELSE IF root # <<>> /\ root[Len(root)] = "/" THEN root \o suffix
    ELSE root \o <<"/">> \o suffix

\* C11: for every unit, the destination passed to rsync is the path join of
\* the destination root with unit.destination, for an empty destination and
\* for a non-empty one.
C11_DestinationIsPathJoin ==
    \A i \in DOMAIN xfer :
        xfer[i].command[5] = path_join(scpurl, xfer[i].unit.destination)

\* C12: the failure of a worker does not cancel its siblings: a worker is
\* failed only through the non-zero exit of its own last transfer, a transfer
\* in flight stays awaited by the worker that spawned it and has exited when
\* send is over, and a worker that stops without failing stops because the
\* enumerator is exhausted, so that a run with a worker that did not fail
\* ends with every unit of the enumeration pulled.
C12_NoSiblingCancellation ==
    /\ \A w \in failed_workers :
          /\ last_of(w) # 0
          /\ xfer[last_of(w)].exited
          /\ xfer[last_of(w)].returncode # 0
    /\ \A i \in DOMAIN xfer :
          ~xfer[i].exited =>
              /\ wpc[xfer[i].worker] = "wait"
              /\ wcur[xfer[i].worker] = i
              /\ ~run_over
    /\ \A w \in Workers : wpc[w] = "done" => exhausted
    /\ (run_over /\ failed_workers # Workers) =>
          /\ exhausted
          /\ Len(xfer) = Len(list_FileFactory(args))

\* a worker has failed, and after its failure its sibling has pulled and
\* transferred with success the units that remained, up to the exhaustion
C12_Witness ==
    \E w \in failed_workers :
        /\ \E v \in Workers : wpc[v] = "done"
        /\ \E i, j \in DOMAIN xfer :
              /\ last_of(w) < i /\ i < j
              /\ xfer[i].exited /\ xfer[i].returncode = 0
              /\ xfer[j].exited /\ xfer[j].returncode = 0

file_arg_sources == { file_unit(args[i]).source : i \in { j \in DOMAIN args : is_file_arg(args[j]) } }

\* C14: every unit produced by the enumerator has the empty string as
\* destination if and only if its source is one of the requested input paths
\* resolved to a regular file; a unit produced while walking a requested
\* directory, hence one whose source is not such an input, never has an
\* empty destination.
C14_EmptyDestinationIffFileArgument ==
    \A i \in DOMAIN out :
        out[i] # None =>
            ((out[i].destination = <<>>) <=> (out[i].source \in file_arg_sources))

(***************************************************************************)
(* Properties of the lifecycle of a FileFactory (specification SpecIter)   *)
(***************************************************************************)
\* the number of units produced so far by the iterations of file_factory
RECURSIVE yielded(_)
yielded(lists) == IF lists = <<>> THEN 0 ELSE Len(Head(lists)) + yielded(Tail(lists))

\* every unit of the enumeration has been produced, by get_obj or by one
\* iteration of the object
all_produced ==
    LET E == list_FileFactory(args)
    IN  /\ E # <<>>
        /\ \/ units_of(out) = E
           \/ \E j \in DOMAIN iterated : iterated[j] = E

C16_PublicKeyRoundTrip ==
    \A h \in Headers, k \in Keys, c \in Comments :
        line = key_line(h, k, c) =>
            /\ pk # None => pk = PublicKey(<<h>>, k, c.owner, c.origin)
            /\ pk_str # None => pk_str = Str(line)

\* a line with an owner and an origin was parsed and formatted back
C16_Witness ==
    /\ \E h \in Headers, k \in Keys, c \in Comments :
          /\ c.origin # None
          /\ line = key_line(h, k, c)
    /\ pk \notin {None, ValueError}
    /\ pk.origin # None
    /\ pk_str # None

\* the whitespace-separated fields of a string, in order
RECURSIVE fields_of(_)
fields_of(s) ==
    LET t == lstrip(s)
    IN  IF t = <<>> THEN <<>>
        ELSE << SubSeq(t, 1, word_len(t)) >> \o fields_of(SubSeq(t, word_len(t) + 1, Len(t)))

\* the string is one of the six supported headers
is_supported(field) == \E h \in Headers : field = <<h>>

\* C17: PublicKey.from_line raises ValueError, and returns no key, for every
\* line that has fewer than two whitespace-separated fields (the empty line
\* included) or whose first field is not one of the six supported headers;
\* AuthorizedKeyEntry.from_line raises ValueError for every line that holds
\* no supported header.
C17_ValueErrorOnBadLines ==
    /\ (pk # None /\ (Len(fields_of(line)) < 2 \/ ~is_supported(fields_of(line)[1])))
          => pk = ValueError
    /\ (entry # None /\ \A i \in DOMAIN line : line[i] \notin Headers)
          => entry = ValueError

\* both parsers have raised on a line of two fields whose first field is not
\* a supported header
C17_Witness ==
    /\ Len(fields_of(line)) >= 2
    /\ ~is_supported(fields_of(line)[1])
    /\ \A i \in DOMAIN line : line[i] \notin Headers
    /\ pk = ValueError
    /\ entry = ValueError

\* C18: for every line made of a comma-separated list of non-empty options,
\* one space and a well-formed line of public key,
\* AuthorizedKeyEntry.from_line(line) has that list of options, in order,
\* and that key, and str of it is the line; an entry built with no options
\* has no options and str of it is str of its public key.
C18_EntryRoundTrip ==
    /\ \A o \in OptionLists \ {<<>>}, h \in Headers, k \in Keys, c \in Comments :
          line = entry_line(o, key_line(h, k, c)) =>
              /\ entry # None =>
                    /\ entry # ValueError
                    /\ entry.options = o
                    /\ entry.publickey = PublicKey(<<h>>, k, c.owner, c.origin)
              /\ entry_str # None => entry_str = Str(line)
    /\ pk \notin {None, ValueError} =>
          /\ AuthorizedKeyEntry(pk, <<>>).options = <<>>
          /\ AuthorizedKeyEntry_str(AuthorizedKeyEntry(pk, <<>>)) = PublicKey_str(pk)

(***************************************************************************)
(* Properties of revoke (specification SpecRevoke)                         *)
(***************************************************************************)
\* the content of authorized_keys when revoke began
original == IF rpc = "start" THEN authkeys ELSE stream

\* the entry has an option starting with command="/bin/rrsync : authorize
\* wrote it
managed_entry(e) ==
    \E i \in DOMAIN e.options :
        /\ Len(e.options[i]) >= 2
        /\ SubSeq(e.options[i], 1, 2) = <<"command=\"/bin/rrsync", " ">>

\* the entry is for the key, or of the owner, that revoke is given
asked_entry(e) ==
    IF rargs.publickey # None THEN e.publickey.key = rargs.publickey.key
    ELSE /\ e.publickey.owner \notin {None, Str(<<>>)}
         /\ e.publickey.owner = rargs.owner

\* the line parses as an entry
is_entry(l) == AuthorizedKeyEntry_from_line(rstrip(l)) # ValueError

\* the line parses as an entry that authorize wrote
is_managed(l) ==
    LET e == AuthorizedKeyEntry_from_line(rstrip(l))
    IN  e # ValueError /\ managed_entry(e)

\* the line parses as an entry for what revoke is given
is_asked(l) ==
    LET e == AuthorizedKeyEntry_from_line(rstrip(l))
    IN  e # ValueError /\ asked_entry(e)

\* the line is to be revoked: a managed entry for what revoke is given
to_revoke(l) ==
    LET e == AuthorizedKeyEntry_from_line(rstrip(l))
    IN  e # ValueError /\ managed_entry(e) /\ asked_entry(e)

\* p is q with some of its elements left out
RECURSIVE is_subsequence(_, _)
is_subsequence(p, q) ==
    IF p = <<>> THEN TRUE
    ELSE IF q = <<>> THEN FALSE
    ELSE IF Head(p) = Head(q) THEN is_subsequence(Tail(p), Tail(q))
    ELSE is_subsequence(p, Tail(q))

\* C19: revoke never modifies the entries it does not manage: at every step
\* the lines of authorized_keys that do not parse as an entry, or that have
\* no option starting with command="/bin/rrsync , are those of the original
\* file, unchanged and in the same order, whatever key or owner is revoked;
\* only managed entries matching what is asked are removed, nothing is added.
C19_UnmanagedLinesUntouched ==
    /\ SelectSeq(authkeys, LAMBDA l : ~is_managed(l))
          = SelectSeq(original, LAMBDA l : ~is_managed(l))
    /\ SelectSeq(authkeys, LAMBDA l : ~to_revoke(l))
          = SelectSeq(original, LAMBDA l : ~to_revoke(l))
    /\ is_subsequence(authkeys, original)

\* revoke has removed an entry from a file that holds, around it, a line
\* that does not parse and an entry for the same key that it does not manage
C19_Witness ==
    /\ rpc = "returned"
    /\ Len(authkeys) < Len(stream)
    /\ \E i, j \in DOMAIN authkeys :
          /\ i # j
          /\ ~is_entry(authkeys[i])
          /\ is_entry(authkeys[j]) /\ ~is_managed(authkeys[j]) /\ is_asked(authkeys[j])

\* the content of authorized_keys without the entries to revoke
new_content == SelectSeq(original, LAMBDA l : ~to_revoke(l))

\* C20: during and after revoke, authorized_keys holds either the whole
\* original content or the whole new content (the original without the
\* revoked entries); when an entry is revoked, the backup holds the original
\* content before the replacement happens, and the file ends with the new
\* content; when no entry matches, the file is left as it was and no backup
\* is made.
C20_CoherentAuthorizedKeys ==
    LET new == new_content
    IN  /\ authkeys \in {original, new}
        /\ authkeys # original => backup = File(original)
        /\ rpc = "copied" => backup = File(original)
        /\ (rpc = "returned" /\ new # original) =>
              /\ authkeys = new
              /\ backup = File(original)
        /\ (rpc = "returned" /\ new = original) =>
              /\ authkeys = original
              /\ backup \in {NoFile, StaleBackup}

\* revoke has replaced a file of three lines by its two remaining lines,
\* and the backup holds the three lines
C20_Witness ==
    /\ rpc = "returned"
    /\ revoked_keys # <<>>
    /\ Len(stream) = 3
    /\ Len(authkeys) = 2
    /\ backup = File(stream)
    /\ tmpfile = NoFile

(***************************************************************************)
(* Properties of the transfers of a run (specification Spec)               *)
(***************************************************************************)
\* C21: no unit is ever retried: rsync is invoked once per unit pulled (the
\* k-th record of xfer is the invocation for the k-th unit the enumerator
\* handed out, and there are as many records as units handed out), the
\* enumerator never goes back, and the record of a transfer that has exited,
\* failed or not, is never touched again, so that a unit whose transfer
\* failed is not offered again to any worker.
C21_NoRetry ==
    [][ /\ Len(xfer') = gen'.n
        /\ \A i \in DOMAIN xfer' : xfer'[i].occ = i
        /\ gen'.n >= gen.n
        /\ \A i \in DOMAIN xfer :
              /\ i \in DOMAIN xfer'
              /\ xfer'[i].occ = xfer[i].occ
              /\ xfer'[i].unit = xfer[i].unit
              /\ xfer'[i].command = xfer[i].command
              /\ xfer[i].exited => xfer'[i] = xfer[i] ]_vars

\* the first transfer of a run has failed and the run is over with every
\* unit of the enumeration, three or more, transferred by the other worker
C21_Witness ==
    /\ run_over
    /\ Len(xfer) >= 3
    /\ Len(xfer) = Len(list_FileFactory(args))
    /\ xfer[1].exited /\ xfer[1].returncode # 0
    /\ \A i \in 2..Len(xfer) : xfer[i].exited /\ xfer[i].worker # xfer[1].worker

(***************************************************************************)
(* Properties of authorize (specification SpecAuthorize)                   *)
(***************************************************************************)
\* the key given to authorize occurs in a line of the file as it was
key_in_use == \E i \in DOMAIN authkeys0 : contains(authkeys0[i], aargs.publickey.key)

\* the line is one whole line holding an entry for the key given to authorize
is_entry_line_for_key(l) ==
    /\ l # <<>>
    /\ l[Len(l)] = "\n"
    /\ LET e == AuthorizedKeyEntry_from_line(rstrip(l))
       IN  /\ e # ValueError
           /\ e.publickey.key = aargs.publickey.key
           /\ Len(e.options) = 4
           /\ startswith_rrsync(e.options[1])

\* C22: authorize refuses a key that is already in use: when the key occurs
\* in a line of authorized_keys it returns EEXIST, leaves the file as it was
\* and creates no directory; otherwise it appends exactly one line, an entry
\* for the key, at the end of the file and leaves every line the file had
\* unchanged.
C22_AuthorizeRefusesKeyInUse ==
    apc = "returned" =>
        IF key_in_use
        THEN /\ aret = Errno(EEXIST)
             /\ authkeys = authkeys0
             /\ dirs = {}
        ELSE /\ Len(authkeys) = Len(authkeys0) + 1
             /\ SubSeq(authkeys, 1, Len(authkeys0)) = authkeys0
             /\ is_entry_line_for_key(authkeys[Len(authkeys)])

(***************************************************************************)
(* Termination of send (specification SpecLive)                            *)
(***************************************************************************)
\* C23: when every rsync invocation exits, send is eventually over (it returns
\* or lets the error of the run through), whatever the number of units and of
\* workers, also when some or all of the workers fail before the enumerator
\* is exhausted.
C23_SendEventuallyOver == <>run_over

\* send is over with every worker failed and units left in the enumerator
C23_Witness ==
    /\ run_over
    /\ Cardinality(Workers) >= 2
    /\ failed_workers = Workers
    /\ ~exhausted

(***************************************************************************)
(* One transfer at a time in each worker (specification Spec)              *)
(***************************************************************************)
\* the rsync invocations that have not exited
in_flight == { i \in DOMAIN xfer : ~xfer[i].exited }

\* C24: each worker runs rsync synchronously, one unit at a time: while the
\* rsync of a unit has not exited, the worker that pulled the unit is blocked
\* in proc.wait() on it and pulls nothing, so a worker has at most one
\* transfer in flight and no more transfers are in flight than there are
\* workers.
C24_OneTransferInFlightPerWorker ==
    /\ \A i \in in_flight :
          /\ wpc[xfer[i].worker] = "wait"
          /\ wcur[xfer[i].worker] = i
    /\ \A w \in Workers : Cardinality({ i \in in_flight : xfer[i].worker = w }) <= 1
    /\ Cardinality(in_flight) <= Cardinality(Workers)

\* every worker has a transfer in flight, and one of them is on its second
\* unit, pulled after the rsync of its first one exited
C24_Witness ==
    /\ Cardinality(Workers) >= 2
    /\ Cardinality(in_flight) = Cardinality(Workers)
    /\ \E i \in in_flight : \E j \in 1..(i - 1) :
          /\ xfer[j].worker = xfer[i].worker
          /\ xfer[j].exited

====
